---- MODULE Spec2Model ----
(***************************************************************************)
(* Model of the HiddenLayer model scanner for Databricks: the polling      *)
(* notebook hl_monitor_models.py, the scan job notebook hl_scan_model.py   *)
(* and the tag helpers of hl_common.py.  The MLflow model registry is the  *)
(* shared state; every registry call of the code is one atomic step.       *)
(***************************************************************************)
EXTENDS Integers, Sequences, FiniteSets, TLC

(***************************************************************************)
(* Bounds of the model.                                                    *)
(***************************************************************************)
\* Registered models of the concurrent specification Spec.
NumModels == 2
\* Registered models of the admission specification SpecCap.
NumBig == 12
\* Versions a model may have.
MaxVersions == 2
\* Versions a model may get registered while the monitor and the jobs run.
MaxRegistered == 1
\* Poll cycles (runs of the monitor notebook) in one behaviour.
MaxCycles == 2
\* Seconds the clock may run past the scan timeout.
MaxSlack == 1
\* Scan jobs the job cluster executes at the same time.
MaxRunning == 1
\* Scan jobs submitted in one behaviour, per registered model.
RunsPerModel == 1

(***************************************************************************)
(* Program constants.                                                      *)
(***************************************************************************)
STATUS_UNSCANNED == "unscanned"
STATUS_PENDING == "pending"
STATUS_DONE == "done"
STATUS_FAILED == "failed"
STATUS_CANCELED == "canceled"
STATUS_SKIPPED == "skipped"
STATUS_NONE == ""

MODEL_VERSION_STATUS_READY == "READY"
\* A registry status of a model version that is not ready.
MODEL_VERSION_STATUS_NOT_READY == "model not ready"

HL_SCAN_STATUS == "hl_scan_status"
HL_SCAN_THREAT_LEVEL == "hl_scan_threat_level"
HL_SCAN_UPDATED_AT == "hl_scan_updated_at"
HL_SCAN_SCANNER_VERSION == "hl_scan_scanner_version"
HL_SCAN_URL == "hl_scan_url"
HL_SCAN_MESSAGE == "hl_scan_message"
HL_SCAN_RUN_ID == "hl_scan_run_id"

HL_SCAN_NOTEBOOK_TIMEOUT_MINS == 4800
MAX_ACTIVE_SCAN_JOBS == 10

TIMED_OUT_MESSAGE == "Scan job timed out"

\* A tag that is not one of the scanner's, as users put on model versions.
USER_TAG == "k1"

\* Every status a bucket of the snapshot can be asked for.
AllStatuses ==
    {STATUS_NONE, STATUS_UNSCANNED, STATUS_PENDING, STATUS_DONE,
     STATUS_FAILED, STATUS_CANCELED, STATUS_SKIPPED}

Models == 1..NumBig
Versions == 1..MaxVersions

Min(a, b) == IF a < b THEN a ELSE b
Max(a, b) == IF a > b THEN a ELSE b

(***************************************************************************)
(* Tag maps: a function from the tag keys present to their values.         *)
(***************************************************************************)
NoTags == [k \in {} |-> ""]

\* The order in which the registry returns the keys of a tag map.
KeyOrder ==
    << HL_SCAN_STATUS, HL_SCAN_THREAT_LEVEL, HL_SCAN_UPDATED_AT,
       HL_SCAN_SCANNER_VERSION, HL_SCAN_URL, HL_SCAN_MESSAGE, HL_SCAN_RUN_ID,
       USER_TAG >>

\* dict.get(key, default)
tags_get(t, key, default) == IF key \in DOMAIN t THEN t[key] ELSE default

\* MlflowClient.set_model_version_tag on one tag map
set_tag(t, key, value) ==
    [k \in DOMAIN t \cup {key} |-> IF k = key THEN value ELSE t[k]]

\* MlflowClient.delete_model_version_tag on one tag map
delete_tag(t, key) == [k \in DOMAIN t \ {key} |-> t[k]]

\* Mutant of keys_to_clear: the keep list is ignored.
keys_to_clear_ignoring_keep(t, keep_tags) ==
    SelectSeq(KeyOrder, LAMBDA k : k \in DOMAIN t)

\* The keys clear_tags deletes, in the order it meets them.
keys_to_clear(t, keep_tags) ==
    SelectSeq(KeyOrder, LAMBDA k : k \in DOMAIN t /\ k \notin keep_tags)

\* The delete loop of clear_tags on one tag map.
RECURSIVE delete_all(_, _)
delete_all(t, keys) ==
    IF keys = << >> THEN t
    ELSE delete_all(delete_tag(t, Head(keys)), Tail(keys))

\* datetime.isoformat(): the string form of a time stamp.
isoformat(t) == <<"iso", t>>

\* datetime.fromisoformat(s).timestamp(): the time stamp of a string form.
fromisoformat(s) == s[2]

\* A string that is no ISO 8601 time stamp, and the test for those that
\* are: datetime.fromisoformat raises ValueError on the others.
NOT_ISO == <<"text", 0>>
is_isoformat(s) == s[1] = "iso"

(***************************************************************************)
(* State.                                                                  *)
(***************************************************************************)
VARIABLES
    registry,   \* registry[m]: the versions of model m that exist
    registry_status, \* registry_status[m][v]: ModelVersion.status of a version
    tags,       \* tags[m][v]: the tag map of version v of model m
    marker,     \* the init marker file exists
    now,        \* the clock, in seconds
    runs,       \* the scan jobs submitted so far; a run's id is its index
    pc,         \* the monitor notebook's position
    cycle,      \* poll cycles started
    mv_dict,    \* the snapshot of the current poll cycle
    versions,   \* init's own list of untagged model versions
    i,          \* loop index of init and of the admission loop
    j,          \* loop index of handle_job_timeouts
    clr,        \* keys clear_tags has still to delete
    h_base,     \* history: number of runs at the start of the cycle
    h_reap,     \* history: what the reaper last examined, and what it decided
    ret         \* what the last call of get_model_version returned or raised

vars ==
    << registry, tags, marker, now, runs, pc, cycle, mv_dict, versions, i, j,
       clr, h_base, h_reap, registry_status, ret >>

\* A ModelVersion object as the registry returns it.
ModelVersion(m, v) == [name |-> m, version |-> v, tags |-> tags[m][v]]

\* Mutant of latest_version: the lowest version of a model.
latest_version_lowest(m) ==
    CHOOSE v \in registry[m] : \A w \in registry[m] : v <= w

\* The numerically highest version of a model.
latest_version(m) == CHOOSE v \in registry[m] : \A w \in registry[m] : w <= v

StatusOf(t) == tags_get(t, HL_SCAN_STATUS, STATUS_NONE)

\* The models the registry lists, in its listing order, up to model n,
\* restricted to the versions whose status is the given one.
RECURSIVE Bucket(_, _)
Bucket(n, status) ==
    IF n = 0 THEN << >>
    ELSE IF registry[n] # {}
            /\ StatusOf(tags[n][latest_version(n)]) = status
         THEN Append(Bucket(n - 1, status), ModelVersion(n, latest_version(n)))
         ELSE Bucket(n - 1, status)

get_model_versions_by_status(statuses) ==
    [s \in AllStatuses |->
        IF s \in statuses \/ statuses = {} THEN Bucket(NumBig, s) ELSE << >>]

EmptyDict == [s \in AllStatuses |-> << >>]

\* The reaper has examined nothing yet.
NoReap ==
    [j |-> 0, decision |-> "", at |-> 0, before |-> NoTags, keep |-> {}]

SetTag(m, v, key, value) ==
    tags' = [tags EXCEPT ![m][v] = set_tag(@, key, value)]

DeleteTag(m, v, key) ==
    tags' = [tags EXCEPT ![m][v] = delete_tag(@, key)]

\* The registry still has the model version an object stands for; its calls
\* raise for one it no longer has.
Exists(mv) == mv.version \in registry[mv.name]

(***************************************************************************)
(* The monitor notebook, hl_monitor_models.py.  Steps that touch nothing   *)
(* but the notebook's own variables are taken together with the registry   *)
(* call before them.                                                       *)
(***************************************************************************)
num_new_models(d) == Len(d[STATUS_NONE])
num_active_jobs(d) == Len(d[STATUS_PENDING])
max_new_jobs(d) == Max(MAX_ACTIVE_SCAN_JOBS - num_active_jobs(d), 0)
\* Mutant of num_new_jobs: the cap is ignored.
num_new_jobs_uncapped(d) == num_new_models(d)

num_new_jobs(d) == Min(max_new_jobs(d), num_new_models(d))

TimeoutSecs(timeout_minutes) == timeout_minutes * 60

\* Where handle_job_timeouts stands with its loop index at k: at the next
\* model version of its list, or at its end, which ends the notebook.
ReaperPc(d, k) == IF k <= Len(d[STATUS_PENDING]) THEN "reap" ELSE "done"

\* Where the main cell goes once initialization is settled: it leaves when
\* the snapshot holds no new model version, else it enters the admission
\* loop, or the reaper when no job may be started.
AdmissionPc(d) ==
    IF num_new_models(d) = 0 THEN "exit"
    ELSE IF num_new_jobs(d) > 0 THEN "submit"
    ELSE ReaperPc(d, 1)

\* Mutant of PollStart: init runs whether or not the marker exists.
PollStart_always_init ==
    /\ pc = "idle"
    /\ cycle < MaxCycles
    /\ cycle' = cycle + 1
    /\ mv_dict' = get_model_versions_by_status({STATUS_NONE, STATUS_PENDING})
    /\ pc' = "init"
    /\ i' = 0
    /\ j' = 1
    /\ h_base' = Len(runs)
    /\ UNCHANGED << registry, tags, marker, now, runs, versions, clr,
                    h_reap, registry_status, ret >>

\* The snapshot of a poll cycle, and the look for the init marker.
PollStart ==
    /\ pc = "idle"
    /\ cycle < MaxCycles
    /\ cycle' = cycle + 1
    /\ mv_dict' = get_model_versions_by_status({STATUS_NONE, STATUS_PENDING})
    /\ pc' = IF marker THEN AdmissionPc(mv_dict') ELSE "init"
    /\ i' = 0
    /\ j' = 1
    /\ h_base' = Len(runs)
    /\ UNCHANGED << registry, tags, marker, now, runs, versions, clr,
                    h_reap, registry_status, ret >>

\* Mutant of InitSnapshot: init takes the pending model versions too.
InitSnapshot_with_pending ==
    /\ pc = "init"
    /\ versions' = get_model_versions_by_status({})[STATUS_NONE]
                      \o get_model_versions_by_status({})[STATUS_PENDING]
    /\ i' = 1
    /\ pc' = IF Len(versions') = 0 THEN "mark" ELSE "init_status"
    /\ UNCHANGED << registry, tags, marker, now, runs, cycle, mv_dict, j,
                    clr, h_base, h_reap, registry_status, ret >>

\* init takes its own snapshot.
InitSnapshot ==
    /\ pc = "init"
    /\ versions' = get_model_versions_by_status({})[STATUS_NONE]
    /\ i' = 1
    /\ pc' = IF Len(versions') = 0 THEN "mark" ELSE "init_status"
    /\ UNCHANGED << registry, tags, marker, now, runs, cycle, mv_dict, j,
                    clr, h_base, h_reap, registry_status, ret >>

InitSetStatus ==
    /\ pc = "init_status"
    /\ Exists(versions[i])
    /\ SetTag(versions[i].name, versions[i].version, HL_SCAN_STATUS,
              STATUS_UNSCANNED)
    /\ pc' = "init_updated"
    /\ UNCHANGED << registry, marker, now, runs, cycle, mv_dict, versions,
                    i, j, clr, h_base, h_reap, registry_status, ret >>

\* Mutant of InitSetUpdatedAt: the updated_at tag is not written.
InitSetUpdatedAt_forgotten ==
    /\ pc = "init_updated"
    /\ Exists(versions[i])
    /\ i' = i + 1
    /\ pc' = IF i < Len(versions) THEN "init_status" ELSE "mark"
    /\ UNCHANGED << registry, tags, marker, now, runs, cycle, mv_dict,
                    versions, j, clr, h_base, h_reap, registry_status, ret >>

InitSetUpdatedAt ==
    /\ pc = "init_updated"
    /\ Exists(versions[i])
    /\ SetTag(versions[i].name, versions[i].version, HL_SCAN_UPDATED_AT,
              isoformat(now))
    /\ i' = i + 1
    /\ pc' = IF i < Len(versions) THEN "init_status" ELSE "mark"
    /\ UNCHANGED << registry, marker, now, runs, cycle, mv_dict, versions,
                    j, clr, h_base, h_reap, registry_status, ret >>

mark_init_done ==
    /\ pc = "mark"
    /\ marker' = TRUE
    /\ i' = 0
    /\ pc' = AdmissionPc(mv_dict)
    /\ UNCHANGED << registry, tags, now, runs, cycle, mv_dict, versions, j,
                    clr, h_base, h_reap, registry_status, ret >>

\* run_notebook: the job is created and started; its run id is returned.
run_notebook(m, v) ==
    runs' = Append(runs, [name |-> m, version |-> v, pc |-> "queued",
                          submitted |-> now, clr |-> << >>,
                          status |-> STATUS_NONE, message |-> ""])

\* The model versions registered, and the scan jobs a behaviour may submit.
Registered == {m \in Models : registry[m] # {}}
RunBudget == RunsPerModel * Cardinality(Registered)

\* scan_model, first half: the scan job is submitted.
SubmitScanJob ==
    /\ pc = "submit"
    /\ Len(runs) < RunBudget
    /\ run_notebook(mv_dict[STATUS_NONE][i + 1].name,
                    mv_dict[STATUS_NONE][i + 1].version)
    /\ pc' = "run_id"
    /\ UNCHANGED << registry, tags, marker, now, cycle, mv_dict, versions,
                    i, j, clr, h_base, h_reap, registry_status, ret >>

\* scan_model when the job runner refuses the job: run_notebook raises, and
\* the exception ends the notebook run.
run_notebook_raises ==
    /\ pc = "submit"
    /\ pc' = "error"
    /\ UNCHANGED << registry, tags, marker, now, runs, cycle, mv_dict,
                    versions, i, j, clr, h_base, h_reap, registry_status,
                    ret >>

\* scan_model, second half: the run id is saved as a tag.
WriteRunId ==
    /\ pc = "run_id"
    /\ Exists(mv_dict[STATUS_NONE][i + 1])
    /\ SetTag(mv_dict[STATUS_NONE][i + 1].name,
              mv_dict[STATUS_NONE][i + 1].version, HL_SCAN_RUN_ID, Len(runs))
    /\ i' = i + 1
    /\ pc' = IF i + 1 < num_new_jobs(mv_dict) THEN "submit"
             ELSE ReaperPc(mv_dict, 1)
    /\ UNCHANGED << registry, marker, now, runs, cycle, mv_dict, versions,
                    j, clr, h_base, h_reap, registry_status, ret >>

\* Mutant of reaper_decision: a version times out at the timeout already.
reaper_decision_at_timeout(mv, timeout_minutes, t_now) ==
    IF tags_get(mv.tags, HL_SCAN_STATUS, STATUS_NONE) # STATUS_PENDING
    THEN "not_pending"
    ELSE IF HL_SCAN_UPDATED_AT \notin DOMAIN mv.tags
    THEN "no_updated_at"
    ELSE IF ~is_isoformat(mv.tags[HL_SCAN_UPDATED_AT])
    THEN "raises"
    ELSE IF t_now - fromisoformat(mv.tags[HL_SCAN_UPDATED_AT])
                >= TimeoutSecs(timeout_minutes)
    THEN "timed_out"
    ELSE "alive"

\* Mutant of reaper_decision: the status of the version is not looked at.
reaper_decision_any_status(mv, timeout_minutes, t_now) ==
    IF HL_SCAN_UPDATED_AT \notin DOMAIN mv.tags
    THEN "no_updated_at"
    ELSE IF ~is_isoformat(mv.tags[HL_SCAN_UPDATED_AT])
    THEN "raises"
    ELSE IF t_now - fromisoformat(mv.tags[HL_SCAN_UPDATED_AT])
                > TimeoutSecs(timeout_minutes)
    THEN "timed_out"
    ELSE "alive"

\* What handle_job_timeouts decides for one model version object.  (The
\* registry never returns a model version without a tags dictionary.)
reaper_decision(mv, timeout_minutes, t_now) ==
    IF tags_get(mv.tags, HL_SCAN_STATUS, STATUS_NONE) # STATUS_PENDING
    THEN "not_pending"
    ELSE IF HL_SCAN_UPDATED_AT \notin DOMAIN mv.tags
    THEN "no_updated_at"
    ELSE IF ~is_isoformat(mv.tags[HL_SCAN_UPDATED_AT])
    THEN "raises"
    ELSE IF t_now - fromisoformat(mv.tags[HL_SCAN_UPDATED_AT])
                > TimeoutSecs(timeout_minutes)
    THEN "timed_out"
    ELSE "alive"

CurPending == mv_dict[STATUS_PENDING][j]

\* handle_job_timeouts examines the next model version of its list.
ReaperCheck ==
    /\ pc = "reap"
    /\ LET decision == reaper_decision(CurPending,
                                       HL_SCAN_NOTEBOOK_TIMEOUT_MINS, now)
       IN /\ h_reap' = [j |-> j, decision |-> decision, at |-> now,
                        before |-> tags[CurPending.name][CurPending.version],
                        keep |-> IF decision = "timed_out"
                                 THEN {HL_SCAN_RUN_ID} ELSE {}]
          /\ IF decision = "timed_out"
             THEN pc' = "clear" /\ j' = j
             ELSE IF decision = "raises"
             THEN pc' = "error" /\ j' = j
             ELSE pc' = ReaperPc(mv_dict, j + 1) /\ j' = j + 1
    /\ UNCHANGED << registry, tags, marker, now, runs, cycle, mv_dict,
                    versions, i, clr, h_base, registry_status, ret >>

\* clear_tags re-reads the model version and lists the keys to delete.
ReaperClearFetch ==
    /\ pc = "clear"
    /\ Exists(CurPending)
    /\ clr' = keys_to_clear(tags[CurPending.name][CurPending.version],
                            {HL_SCAN_RUN_ID})
    /\ pc' = IF clr' = << >> THEN "set_status" ELSE "delete"
    /\ UNCHANGED << registry, tags, marker, now, runs, cycle, mv_dict,
                    versions, i, j, h_base, h_reap, registry_status, ret >>

ReaperDelete ==
    /\ pc = "delete"
    /\ Exists(CurPending)
    /\ DeleteTag(CurPending.name, CurPending.version, Head(clr))
    /\ clr' = Tail(clr)
    /\ pc' = IF clr' = << >> THEN "set_status" ELSE "delete"
    /\ UNCHANGED << registry, marker, now, runs, cycle, mv_dict, versions,
                    i, j, h_base, h_reap, registry_status, ret >>

ReaperSetStatus ==
    /\ pc = "set_status"
    /\ Exists(CurPending)
    /\ SetTag(CurPending.name, CurPending.version, HL_SCAN_STATUS,
              STATUS_FAILED)
    /\ pc' = "set_message"
    /\ UNCHANGED << registry, marker, now, runs, cycle, mv_dict, versions,
                    i, j, clr, h_base, h_reap, registry_status, ret >>

ReaperSetMessage ==
    /\ pc = "set_message"
    /\ Exists(CurPending)
    /\ SetTag(CurPending.name, CurPending.version, HL_SCAN_MESSAGE,
              TIMED_OUT_MESSAGE)
    /\ pc' = "set_updated"
    /\ UNCHANGED << registry, marker, now, runs, cycle, mv_dict, versions,
                    i, j, clr, h_base, h_reap, registry_status, ret >>

\* The last write for a timed-out model version; the loop goes on.
ReaperSetUpdatedAt ==
    /\ pc = "set_updated"
    /\ Exists(CurPending)
    /\ SetTag(CurPending.name, CurPending.version, HL_SCAN_UPDATED_AT,
              isoformat(now))
    /\ j' = j + 1
    /\ pc' = ReaperPc(mv_dict, j + 1)
    /\ UNCHANGED << registry, marker, now, runs, cycle, mv_dict, versions,
                    i, clr, h_base, h_reap, registry_status, ret >>

\* The notebook run is over and its variables are gone; the job scheduler
\* waits for the next poll.
PollEnd ==
    /\ pc \in {"done", "exit", "error"}
    /\ pc' = "idle"
    /\ mv_dict' = EmptyDict
    /\ versions' = << >>
    /\ i' = 0
    /\ j' = 0
    /\ clr' = << >>
    /\ h_base' = 0
    /\ h_reap' = NoReap
    /\ UNCHANGED << registry, tags, marker, now, runs, cycle,
                    registry_status, ret >>

Poller ==
    \/ PollStart
    \/ InitSnapshot
    \/ InitSetStatus
    \/ InitSetUpdatedAt
    \/ mark_init_done
    \/ SubmitScanJob
    \/ run_notebook_raises
    \/ WriteRunId
    \/ ReaperCheck
    \/ PollEnd

ReaperWrites ==
    \/ ReaperClearFetch
    \/ ReaperDelete
    \/ ReaperSetStatus
    \/ ReaperSetMessage
    \/ ReaperSetUpdatedAt

(***************************************************************************)
(* The admission specification: poll cycles over a registry of NumBig      *)
(* models, each untagged or pending, while the job runner starts no job.   *)
(***************************************************************************)
PendingTags ==
    [k \in {HL_SCAN_STATUS, HL_SCAN_UPDATED_AT, HL_SCAN_RUN_ID} |->
        IF k = HL_SCAN_STATUS THEN STATUS_PENDING
        ELSE IF k = HL_SCAN_UPDATED_AT THEN isoformat(0) ELSE 0]

\* Every model version is ready.
AllReady == [m \in Models |-> [v \in Versions |-> MODEL_VERSION_STATUS_READY]]

\* No call of get_model_version has been recorded.
NoRet == [name |-> 0, version |-> 0, fault |-> "", kind |-> "", class |-> "",
          value |-> << >>]

InitCommon ==
    /\ now = 0
    /\ ret = NoRet
    /\ runs = << >>
    /\ pc = "idle"
    /\ cycle = 0
    /\ mv_dict = EmptyDict
    /\ versions = << >>
    /\ i = 0
    /\ j = 0
    /\ clr = << >>
    /\ h_base = 0
    /\ h_reap = NoReap

InitCap ==
    /\ InitCommon
    /\ registry_status = AllReady
    /\ registry = [m \in Models |-> {1}]
    /\ \E P \in SUBSET Models :
          /\ tags = [m \in Models |->
                       [v \in Versions |->
                          IF m \in P /\ v = 1 THEN PendingTags ELSE NoTags]]
          /\ marker \in {b \in BOOLEAN : P # {} => b}

NextCap == Poller

SpecCap == InitCap /\ [][NextCap]_vars

(***************************************************************************)
(* The scan job notebook, hl_scan_model.py.  A run is one execution of it  *)
(* by the job runner, which ends the run once timeout_seconds have passed. *)
(***************************************************************************)
MSG_NO_SOURCE == "Model version has no run_id or source, so we can't scan it"
MSG_UNEXPECTED == "Unexpected error scanning model"
MSG_SCANNED_ONCE == "A given model version can only be scanned once by HiddenLayer."

\* The statuses the scan engine returns with its results.
ScanResultStatuses ==
    {STATUS_DONE, STATUS_FAILED, STATUS_CANCELED, STATUS_SKIPPED}

\* Positions at which a run has ended.
EndedPcs == {"finished", "raised", "killed"}

Ended(r) == runs[r].pc \in EndedPcs

\* The job runner still lets the run execute (Task.timeout_seconds).
Alive(r) ==
    /\ ~Ended(r)
    /\ now <= runs[r].submitted + TimeoutSecs(HL_SCAN_NOTEBOOK_TIMEOUT_MINS)

\* The runs the job cluster is executing.
Running == {r \in DOMAIN runs : ~Ended(r) /\ runs[r].pc # "queued"}

\* What is kept of a run that has ended.
EndedRun(run, how) ==
    [name |-> run.name, version |-> run.version, pc |-> how, submitted |-> 0,
     clr |-> << >>, status |-> STATUS_NONE, message |-> ""]

Goto(r, to) ==
    runs' = [runs EXCEPT ![r] = IF to \in EndedPcs THEN EndedRun(@, to)
                                 ELSE [@ EXCEPT !.pc = to]]

\* The run looks the model version up, downloads its artifacts and reads
\* the credentials; any of these may fail.
JobStart(r) ==
    /\ runs[r].pc = "queued"
    /\ Alive(r)
    /\ Cardinality(Running) < MaxRunning
    /\ \E outcome \in {"ok", MSG_NO_SOURCE, MSG_UNEXPECTED} :
          runs' = [runs EXCEPT
                     ![r].pc = IF outcome = "ok" THEN "tag_status"
                               ELSE "f_clear",
                     ![r].message = IF outcome = "ok" THEN "" ELSE outcome]
    /\ UNCHANGED << registry, tags, marker, now, pc, cycle, mv_dict,
                    versions, i, j, clr, h_base, h_reap, registry_status,
                    ret >>

\* tag_for_scanning, first write.
JobTagStatus(r) ==
    /\ runs[r].pc = "tag_status"
    /\ Alive(r)
    /\ SetTag(runs[r].name, runs[r].version, HL_SCAN_STATUS, STATUS_PENDING)
    /\ Goto(r, "tag_updated")
    /\ UNCHANGED << registry, marker, now, pc, cycle, mv_dict, versions, i,
                    j, clr, h_base, h_reap, registry_status, ret >>

\* tag_for_scanning, second write.
JobTagUpdatedAt(r) ==
    /\ runs[r].pc = "tag_updated"
    /\ Alive(r)
    /\ SetTag(runs[r].name, runs[r].version, HL_SCAN_UPDATED_AT,
              isoformat(now))
    /\ Goto(r, "scan")
    /\ UNCHANGED << registry, marker, now, pc, cycle, mv_dict, versions, i,
                    j, clr, h_base, h_reap, registry_status, ret >>

\* hl_scan_folder returns results or raises.
hl_scan_folder(r) ==
    /\ runs[r].pc = "scan"
    /\ Alive(r)
    /\ \/ \E status \in ScanResultStatuses :
             runs' = [runs EXCEPT ![r].pc = "r_clear", ![r].status = status]
       \/ \E msg \in {MSG_UNEXPECTED, MSG_SCANNED_ONCE} :
             runs' = [runs EXCEPT ![r].pc = "f_clear", ![r].message = msg]
    /\ UNCHANGED << registry, tags, marker, now, pc, cycle, mv_dict,
                    versions, i, j, clr, h_base, h_reap, registry_status,
                    ret >>

\* clear_tags re-reads the model version and lists the keys to delete:
\* every key for the results, every key but the run id for a failure.
JobClearFetch(r) ==
    /\ runs[r].pc \in {"r_clear", "f_clear"}
    /\ Alive(r)
    /\ LET keep == IF runs[r].pc = "f_clear" THEN {HL_SCAN_RUN_ID} ELSE {}
           todo == keys_to_clear(tags[runs[r].name][runs[r].version], keep)
           to == IF todo = << >>
                 THEN (IF runs[r].pc = "f_clear" THEN "f_status"
                       ELSE "r_status")
                 ELSE (IF runs[r].pc = "f_clear" THEN "f_delete"
                       ELSE "r_delete")
       IN runs' = [runs EXCEPT ![r].pc = to, ![r].clr = todo]
    /\ UNCHANGED << registry, tags, marker, now, pc, cycle, mv_dict,
                    versions, i, j, clr, h_base, h_reap, registry_status,
                    ret >>

JobClearDelete(r) ==
    /\ runs[r].pc \in {"r_delete", "f_delete"}
    /\ Alive(r)
    /\ DeleteTag(runs[r].name, runs[r].version, Head(runs[r].clr))
    /\ LET rest == Tail(runs[r].clr)
           to == IF rest # << >> THEN runs[r].pc
                 ELSE IF runs[r].pc = "f_delete" THEN "f_status"
                 ELSE "r_status"
       IN runs' = [runs EXCEPT ![r].pc = to, ![r].clr = rest]
    /\ UNCHANGED << registry, marker, now, pc, cycle, mv_dict, versions, i,
                    j, clr, h_base, h_reap, registry_status, ret >>

\* tag_model_version_with_scan_results: the status of the results.
JobSetStatus(r) ==
    /\ runs[r].pc = "r_status"
    /\ Alive(r)
    /\ SetTag(runs[r].name, runs[r].version, HL_SCAN_STATUS, runs[r].status)
    /\ Goto(r, IF runs[r].status = "done" THEN "r_threat" ELSE "finished")
    /\ UNCHANGED << registry, marker, now, pc, cycle, mv_dict, versions, i,
                    j, clr, h_base, h_reap, registry_status, ret >>

JobSetThreatLevel(r) ==
    /\ runs[r].pc = "r_threat"
    /\ Alive(r)
    /\ SetTag(runs[r].name, runs[r].version, HL_SCAN_THREAT_LEVEL, "severity")
    /\ Goto(r, "r_updated")
    /\ UNCHANGED << registry, marker, now, pc, cycle, mv_dict, versions, i,
                    j, clr, h_base, h_reap, registry_status, ret >>

JobSetUpdatedAt(r) ==
    /\ runs[r].pc = "r_updated"
    /\ Alive(r)
    /\ SetTag(runs[r].name, runs[r].version, HL_SCAN_UPDATED_AT,
              isoformat(now))
    /\ Goto(r, "r_version")
    /\ UNCHANGED << registry, marker, now, pc, cycle, mv_dict, versions, i,
                    j, clr, h_base, h_reap, registry_status, ret >>

JobSetScannerVersion(r) ==
    /\ runs[r].pc = "r_version"
    /\ Alive(r)
    /\ SetTag(runs[r].name, runs[r].version, HL_SCAN_SCANNER_VERSION,
              "version")
    /\ Goto(r, "r_url")
    /\ UNCHANGED << registry, marker, now, pc, cycle, mv_dict, versions, i,
                    j, clr, h_base, h_reap, registry_status, ret >>

JobSetUrl(r) ==
    /\ runs[r].pc = "r_url"
    /\ Alive(r)
    /\ SetTag(runs[r].name, runs[r].version, HL_SCAN_URL, "hl_scan_url")
    /\ Goto(r, "finished")
    /\ UNCHANGED << registry, marker, now, pc, cycle, mv_dict, versions, i,
                    j, clr, h_base, h_reap, registry_status, ret >>

\* fail_and_exit_with_message after its clear_tags.
JobFailSetStatus(r) ==
    /\ runs[r].pc = "f_status"
    /\ Alive(r)
    /\ SetTag(runs[r].name, runs[r].version, HL_SCAN_STATUS, STATUS_FAILED)
    /\ Goto(r, "f_message")
    /\ UNCHANGED << registry, marker, now, pc, cycle, mv_dict, versions, i,
                    j, clr, h_base, h_reap, registry_status, ret >>

JobFailSetMessage(r) ==
    /\ runs[r].pc = "f_message"
    /\ Alive(r)
    /\ SetTag(runs[r].name, runs[r].version, HL_SCAN_MESSAGE, runs[r].message)
    /\ Goto(r, "f_updated")
    /\ UNCHANGED << registry, marker, now, pc, cycle, mv_dict, versions, i,
                    j, clr, h_base, h_reap, registry_status, ret >>

JobFailSetUpdatedAt(r) ==
    /\ runs[r].pc = "f_updated"
    /\ Alive(r)
    /\ SetTag(runs[r].name, runs[r].version, HL_SCAN_UPDATED_AT,
              isoformat(now))
    /\ Goto(r, "raised")
    /\ UNCHANGED << registry, marker, now, pc, cycle, mv_dict, versions, i,
                    j, clr, h_base, h_reap, registry_status, ret >>

\* The job runner ends a run that has used up its timeout.
JobTimeout(r) ==
    /\ ~Ended(r)
    /\ ~Alive(r)
    /\ Goto(r, "killed")
    /\ UNCHANGED << registry, tags, marker, now, pc, cycle, mv_dict,
                    versions, i, j, clr, h_base, h_reap, registry_status,
                    ret >>

ScanJob ==
    \E r \in DOMAIN runs :
        \/ JobStart(r)
        \/ JobTagStatus(r)
        \/ JobTagUpdatedAt(r)
        \/ hl_scan_folder(r)
        \/ JobClearFetch(r)
        \/ JobClearDelete(r)
        \/ JobSetStatus(r)
        \/ JobSetThreatLevel(r)
        \/ JobSetUpdatedAt(r)
        \/ JobSetScannerVersion(r)
        \/ JobSetUrl(r)
        \/ JobFailSetStatus(r)
        \/ JobFailSetMessage(r)
        \/ JobFailSetUpdatedAt(r)
        \/ JobTimeout(r)

(***************************************************************************)
(* The environment: users register model versions, time passes.            *)
(***************************************************************************)
RegisterVersion ==
    /\ \E m \in 1..NumModels :
          /\ Cardinality(registry[m]) < MaxRegistered
          /\ registry' = [registry EXCEPT ![m] = @ \cup {Cardinality(@) + 1}]
    /\ UNCHANGED << tags, marker, now, runs, pc, cycle, mv_dict, versions,
                    i, j, clr, h_base, h_reap, registry_status, ret >>

\* The clock jumps by the scan timeout, then runs on in seconds, at most
\* MaxSlack of them.
Tick ==
    /\ \E d \in {1, TimeoutSecs(HL_SCAN_NOTEBOOK_TIMEOUT_MINS)} :
          /\ now + d <= TimeoutSecs(HL_SCAN_NOTEBOOK_TIMEOUT_MINS) + MaxSlack
          /\ d = 1 => now >= TimeoutSecs(HL_SCAN_NOTEBOOK_TIMEOUT_MINS)
          /\ now' = now + d
    /\ UNCHANGED << registry, tags, marker, runs, pc, cycle, mv_dict,
                    versions, i, j, clr, h_base, h_reap, registry_status,
                    ret >>

(***************************************************************************)
(* Spec: the monitor, the scan jobs and the environment, interleaved.  It  *)
(* starts from a schema that the monitor has not yet touched, or has only  *)
(* seen empty.                                                             *)
(***************************************************************************)
Init ==
    /\ InitCommon
    /\ registry_status = AllReady
    /\ registry \in [Models -> {{}, {1}}]
    /\ \A m \in Models : m > NumModels => registry[m] = {}
    /\ tags = [m \in Models |-> [v \in Versions |-> NoTags]]
    /\ marker \in BOOLEAN

Next ==
    \/ Poller
    \/ ReaperWrites
    \/ ScanJob
    \/ RegisterVersion
    \/ Tick

Spec == Init /\ [][Next]_vars

(***************************************************************************)
(* SpecReap: handle_job_timeouts called on one freshly read model version  *)
(* with any tags, as in the manual test below it, with no scan job around. *)
(***************************************************************************)
ReapTags(K, status, updated_at) ==
    [k \in K |->
        IF k = HL_SCAN_STATUS THEN status
        ELSE IF k = HL_SCAN_UPDATED_AT THEN updated_at
        ELSE IF k = HL_SCAN_RUN_ID THEN 0
        ELSE "x"]

InitReap ==
    /\ InitCommon
    /\ registry_status = AllReady
    /\ registry = [m \in Models |-> IF m = 1 THEN {1} ELSE {}]
    /\ marker = TRUE
    /\ \E K \in SUBSET {HL_SCAN_STATUS, HL_SCAN_UPDATED_AT, HL_SCAN_RUN_ID,
                        HL_SCAN_MESSAGE, HL_SCAN_THREAT_LEVEL} :
       \E status \in AllStatuses \ {STATUS_NONE} :
       \E updated_at \in {isoformat(0), isoformat(1), NOT_ISO} :
          tags = [m \in Models |->
                    [v \in Versions |->
                       IF m = 1 /\ v = 1
                       THEN ReapTags(K, status, updated_at)
                       ELSE NoTags]]

\* mv = get_my_model_version(); handle_job_timeouts([mv], timeout)
TestReaper ==
    /\ pc = "idle"
    /\ cycle < MaxCycles
    /\ cycle' = cycle + 1
    /\ mv_dict' = [EmptyDict EXCEPT ![STATUS_PENDING] = << ModelVersion(1, 1) >>]
    /\ j' = 1
    /\ pc' = "reap"
    /\ UNCHANGED << registry, tags, marker, now, runs, versions, i, clr,
                    h_base, h_reap, registry_status, ret >>

NextReap ==
    \/ TestReaper
    \/ ReaperCheck
    \/ ReaperWrites
    \/ PollEnd
    \/ Tick

SpecReap == InitReap /\ [][NextReap]_vars

(***************************************************************************)
(* SpecClear: clear_tags called on version 1 of model 1, which has any     *)
(* tags, with a model version object read earlier and any keep list, as in *)
(* the manual test below it; no one else writes.                           *)
(***************************************************************************)
\* Mutant of clear_tags: the keys are taken from the object passed in.
clear_tags_of_passed_object(model_version, keep_tags) ==
    delete_all(tags[model_version.name][model_version.version],
               keys_to_clear(model_version.tags, keep_tags))

\* clear_tags as a whole: the tag map it leaves in the registry.
clear_tags(model_version, keep_tags) ==
    LET mv == ModelVersion(model_version.name, model_version.version)
    IN delete_all(mv.tags, keys_to_clear(mv.tags, keep_tags))

\* The tag maps a model version may have when clear_tags is tried on it.
ClearInputs ==
    UNION {[K -> {"x"}] : K \in SUBSET {HL_SCAN_STATUS, HL_SCAN_UPDATED_AT,
                                         HL_SCAN_MESSAGE, HL_SCAN_RUN_ID,
                                         HL_SCAN_URL, USER_TAG}}

InitClear ==
    /\ InitCommon
    /\ registry_status = AllReady
    /\ registry = [m \in Models |-> IF m = 1 THEN {1} ELSE {}]
    /\ marker = TRUE
    /\ \E t \in ClearInputs :
          tags = [m \in Models |->
                    [v \in Versions |-> IF m = 1 /\ v = 1 THEN t ELSE NoTags]]

\* clear_tags(get_test_mv(), keep_tags), the object being as old as one likes.
TestClearTags ==
    /\ pc = "idle"
    /\ cycle < MaxCycles
    /\ cycle' = cycle + 1
    /\ \E keep_tags \in SUBSET {HL_SCAN_RUN_ID, HL_SCAN_STATUS, USER_TAG} :
       \E old \in {NoTags, tags[1][1], PendingTags} :
          /\ tags' = [tags EXCEPT ![1][1] =
                         clear_tags([name |-> 1, version |-> 1, tags |-> old],
                                    keep_tags)]
          /\ h_reap' = [j |-> 1, decision |-> "cleared", at |-> now,
                        before |-> tags[1][1], keep |-> keep_tags]
    /\ pc' = "done"
    /\ UNCHANGED << registry, marker, now, runs, mv_dict, versions, i, j,
                    clr, h_base, registry_status, ret >>

\* The tags written by hand between two tries of the manual test.
TestSetTag ==
    /\ pc = "idle"
    /\ cycle >= 1
    /\ \E key \in {HL_SCAN_RUN_ID, HL_SCAN_STATUS, USER_TAG} :
          /\ key \notin DOMAIN tags[1][1]
          /\ SetTag(1, 1, key, "v1")
    /\ UNCHANGED << registry, marker, now, runs, pc, cycle, mv_dict,
                    versions, i, j, clr, h_base, h_reap, registry_status,
                    ret >>

NextClear ==
    \/ TestClearTags
    \/ TestSetTag
    \/ PollEnd

SpecClear == InitClear /\ [][NextClear]_vars

(***************************************************************************)
(* SpecGone: poll cycles over a registry from which model versions are     *)
(* deleted while a cycle runs; the job runner starts no job.               *)
(***************************************************************************)
\* The positions at which the monitor is about to call the registry for one
\* model version of a snapshot, and that model version.
RegistryPcs ==
    {"init_status", "init_updated", "run_id", "clear", "delete",
     "set_status", "set_message", "set_updated"}

Target ==
    IF pc \in {"init_status", "init_updated"} THEN versions[i]
    ELSE IF pc = "run_id" THEN mv_dict[STATUS_NONE][i + 1]
    ELSE CurPending

\* set_model_version_tag, get_model_version or delete_model_version_tag on
\* a model version the registry no longer has: the call raises, nothing
\* catches it, and the notebook run ends.
registry_call_raises ==
    /\ pc \in RegistryPcs
    /\ ~Exists(Target)
    /\ pc' = "error"
    /\ UNCHANGED << registry, tags, marker, now, runs, cycle, mv_dict,
                    versions, i, j, clr, h_base, h_reap, registry_status,
                    ret >>

\* A user deletes a model version; its tags go with it.
DeleteVersion ==
    /\ \E m \in 1..NumModels : \E v \in registry[m] :
          /\ registry' = [registry EXCEPT ![m] = @ \ {v}]
          /\ tags' = [tags EXCEPT ![m][v] = NoTags]
    /\ UNCHANGED << marker, now, runs, pc, cycle, mv_dict, versions, i, j,
                    clr, h_base, h_reap, registry_status, ret >>

InitGone ==
    /\ InitCommon
    /\ registry_status = AllReady
    /\ registry = [m \in Models |-> IF m <= NumModels THEN {1} ELSE {}]
    /\ \E P \in SUBSET (1..NumModels) :
          /\ tags = [m \in Models |->
                       [v \in Versions |->
                          IF m \in P /\ v = 1 THEN PendingTags ELSE NoTags]]
          /\ marker \in {b \in BOOLEAN : P # {} => b}

NextGone ==
    \/ Poller
    \/ ReaperWrites
    \/ registry_call_raises
    \/ DeleteVersion
    \/ Tick

SpecGone == InitGone /\ [][NextGone]_vars

(***************************************************************************)
(* SpecIndex: poll cycles over a registry whose models have any of their   *)
(* versions, each untagged, pending or done; the job runner starts no job. *)
(***************************************************************************)
\* The tags of a model version with the given status, as the monitor and
\* the scan job leave them.
TagsWith(status) ==
    IF status = STATUS_NONE THEN NoTags
    ELSE IF status = STATUS_PENDING THEN PendingTags
    ELSE [k \in {HL_SCAN_STATUS, HL_SCAN_UPDATED_AT} |->
             IF k = HL_SCAN_STATUS THEN status ELSE isoformat(0)]

InitIndex ==
    /\ InitCommon
    /\ registry_status = AllReady
    /\ \E st \in [(1..NumModels) \X Versions ->
                     {"absent", STATUS_NONE, STATUS_PENDING, STATUS_DONE}] :
          /\ registry = [m \in Models |->
                           IF m <= NumModels
                           THEN {v \in Versions : st[m, v] # "absent"}
                           ELSE {}]
          /\ tags = [m \in Models |->
                       [v \in Versions |->
                          IF m <= NumModels /\ st[m, v] # "absent"
                          THEN TagsWith(st[m, v])
                          ELSE NoTags]]
    /\ marker \in {b \in BOOLEAN :
                      (\E m \in Models : \E v \in Versions :
                          tags[m][v] # NoTags) => b}

NextIndex == Poller

SpecIndex == InitIndex /\ [][NextIndex]_vars

(***************************************************************************)
(* SpecReady: the monitor, the scan jobs and the environment, starting     *)
(* with one model version that is not ready (its registration is pending   *)
(* or has failed); the versions registered later are ready.                *)
(***************************************************************************)
InitReady ==
    /\ InitCommon
    /\ registry = [m \in Models |-> IF m = 1 THEN {1} ELSE {}]
    /\ registry_status =
          [AllReady EXCEPT ![1][1] = MODEL_VERSION_STATUS_NOT_READY]
    /\ tags = [m \in Models |-> [v \in Versions |-> NoTags]]
    /\ marker \in BOOLEAN

SpecReady == InitReady /\ [][Next]_vars

(***************************************************************************)
(* SpecGet: get_model_version called for any model name and version        *)
(* number, over any registry, the registry answering or failing.           *)
(***************************************************************************)
\* What can go wrong with a call of the registry, whether or not the model
\* version exists: nothing, an error the registry reports in its reply
\* (RestException), or a reply that cannot be had or read (MlflowException,
\* the class RestException derives from).
Faults == {"", "PERMISSION_DENIED", "no reply"}

\* MlflowClient.get_model_version: the model version, or the exception
\* raised, with the words of its text.
client_get_model_version(name, version, fault) ==
    IF fault = "no reply"
    THEN [kind |-> "raises", class |-> "MlflowException",
          value |-> << "API", "request", "failed" >>]
    ELSE IF fault # ""
    THEN [kind |-> "raises", class |-> "RestException",
          value |-> << fault, "no", "access" >>]
    ELSE IF version \in registry[name]
    THEN [kind |-> "returns", class |-> "ModelVersion",
          value |-> ModelVersion(name, version)]
    ELSE [kind |-> "raises", class |-> "RestException",
          value |-> << "RESOURCE_DOES_NOT_EXIST", "Routine", "or", "Model",
                       "does", "not", "exist" >>]

get_model_version(full_model_name, mv_num, fault) ==
    LET reply == client_get_model_version(full_model_name, mv_num, fault)
    IN IF reply.kind = "returns" THEN reply
       ELSE IF reply.class = "RestException"
       THEN IF \E k \in DOMAIN reply.value :
                  reply.value[k] = "RESOURCE_DOES_NOT_EXIST"
            THEN [kind |-> "raises", class |-> "ModelVersionNotFound",
                  value |-> << >>]
            ELSE [kind |-> "raises", class |-> "ModelVersionError",
                  value |-> << >>]
       ELSE reply

InitGet ==
    /\ InitCommon
    /\ registry_status = AllReady
    /\ \E R \in [1..NumModels -> SUBSET Versions] :
          registry = [m \in Models |-> IF m <= NumModels THEN R[m] ELSE {}]
    /\ \E P \in SUBSET ((1..NumModels) \X Versions) :
          /\ \A x \in P : x[2] \in registry[x[1]]
          /\ tags = [m \in Models |->
                       [v \in Versions |->
                          IF << m, v >> \in P THEN PendingTags ELSE NoTags]]
    /\ marker = TRUE

TestGetModelVersion ==
    /\ \E name \in 1..NumModels : \E mv_num \in Versions :
       \E fault \in Faults :
          LET out == get_model_version(name, mv_num, fault)
          IN ret' = [name |-> name, version |-> mv_num, fault |-> fault,
                     kind |-> out.kind, class |-> out.class,
                     value |-> out.value]
    /\ UNCHANGED << registry, tags, marker, now, runs, pc, cycle, mv_dict,
                    versions, i, j, clr, h_base, h_reap, registry_status >>

NextGet == TestGetModelVersion

SpecGet == InitGet /\ [][NextGet]_vars

(***************************************************************************)
(* SpecInit: poll cycles that find no init marker (it was never written,   *)
(* or clear_init_done has removed it) over a registry whose model versions *)
(* are untagged, unscanned, pending or done, and from which model versions *)
(* are deleted, so that init can stop half-way and run again.              *)
(***************************************************************************)
InitInit ==
    /\ InitCommon
    /\ registry_status = AllReady
    /\ \E st \in [(1..NumModels) \X Versions ->
                     {"absent", STATUS_NONE, STATUS_UNSCANNED, STATUS_PENDING,
                      STATUS_DONE}] :
          /\ registry = [m \in Models |->
                           IF m <= NumModels
                           THEN {v \in Versions : st[m, v] # "absent"}
                           ELSE {}]
          /\ tags = [m \in Models |->
                       [v \in Versions |->
                          IF m <= NumModels /\ st[m, v] # "absent"
                          THEN TagsWith(st[m, v])
                          ELSE NoTags]]
    /\ marker = FALSE

NextInit ==
    \/ Poller
    \/ registry_call_raises
    \/ DeleteVersion

SpecInit == InitInit /\ [][NextInit]_vars

(***************************************************************************)
(* Claims.                                                                 *)
(***************************************************************************)
\* The runs submitted for version v of model m.
RunsOf(m, v) ==
    {r \in DOMAIN runs : runs[r].name = m /\ runs[r].version = v}

\* The model versions submitted in the current poll cycle, in order.
Admitted ==
    [k \in 1..(Len(runs) - h_base) |->
        << runs[h_base + k].name, runs[h_base + k].version >>]

\* The new model versions of the snapshot, in its order.
Candidates ==
    [k \in 1..Len(mv_dict[STATUS_NONE]) |->
        << mv_dict[STATUS_NONE][k].name, mv_dict[STATUS_NONE][k].version >>]

\* The admission loop of the current poll cycle is over.
AdmissionOver ==
    pc \in {"reap", "clear", "delete", "set_status", "set_message",
            "set_updated", "done", "exit"}

\* C1: each model version is submitted to the job runner at most once,
\* however often the poll runs.
C1_SubmittedAtMostOnce ==
    \A m \in Models : \A v \in Versions : Cardinality(RunsOf(m, v)) <= 1

\* C2: the scan jobs submitted and not yet finished never number more than
\* MAX_ACTIVE_SCAN_JOBS.
C2_UnfinishedWithinCap ==
    Cardinality({r \in DOMAIN runs : ~Ended(r)}) <= MAX_ACTIVE_SCAN_JOBS

\* C3: once the admission loop of a poll cycle is over, the model versions
\* it submitted are exactly the first min(max(cap - activeCount, 0),
\* len(candidates)) candidates of the snapshot, in the snapshot's order,
\* activeCount being the number of pending versions of the snapshot.
C3_AdmitsExactPrefix ==
    AdmissionOver =>
        LET cap == 10
            activeCount == Len(mv_dict[STATUS_PENDING])
            slots == IF cap - activeCount > 0 THEN cap - activeCount ELSE 0
            n == IF slots < Len(Candidates) THEN slots ELSE Len(Candidates)
        IN Admitted = [k \in 1..n |-> Candidates[k]]

\* C3 witness: with 7 pending versions and 5 candidates in the snapshot,
\* the cycle has submitted the first 3 candidates and no more.
C3_Witness ==
    /\ pc = "done"
    /\ Len(mv_dict[STATUS_PENDING]) = 7
    /\ Len(Candidates) = 5
    /\ Admitted = << Candidates[1], Candidates[2], Candidates[3] >>

\* C4: when a scan job has just been submitted for a model version, the
\* stored scan status of that version is already pending.
C4_PendingBeforeSubmit ==
    pc = "run_id" =>
        StatusOf(tags[runs[Len(runs)].name][runs[Len(runs)].version])
            = STATUS_PENDING

(***************************************************************************)
(* Claims about handle_job_timeouts, checked under SpecReap, where the one *)
(* model version examined is version 1 of model 1.                         *)
(***************************************************************************)
\* The reaper has examined a model version and has gone past it.
ReaperPast == h_reap.j >= 1 /\ pc \in {"reap", "done"} /\ j > h_reap.j

\* The reaper is in the middle of its writes for a model version.
ReaperWriting ==
    pc \in {"clear", "delete", "set_status", "set_message", "set_updated"}

\* Seconds between the stored updated_at of the version examined and the
\* time at which the reaper examined it.
Elapsed == h_reap.at - h_reap.before[HL_SCAN_UPDATED_AT][2]

\* The version examined was stored as pending, with an updated_at tag that
\* is a time stamp.
ExaminedPending ==
    /\ h_reap.j >= 1
    /\ HL_SCAN_STATUS \in DOMAIN h_reap.before
    /\ h_reap.before[HL_SCAN_STATUS] = "pending"
    /\ HL_SCAN_UPDATED_AT \in DOMAIN h_reap.before
    /\ h_reap.before[HL_SCAN_UPDATED_AT][1] = "iso"

\* C5: once the reaper has gone past a pending model version whose
\* updated_at was more than 4800 minutes old, the version has status failed,
\* the message "Scan job timed out", an updated_at written no earlier than
\* the examination, its former run id if it had one, and no other tag.
C5_TimedOutBecomesFailed ==
    (ExaminedPending /\ Elapsed > 4800 * 60 /\ (pc \in {"reap", "done"})) =>
        LET t == tags[1][1]
            had_run_id == HL_SCAN_RUN_ID \in DOMAIN h_reap.before
        IN /\ j > h_reap.j
           /\ DOMAIN t = {HL_SCAN_STATUS, HL_SCAN_MESSAGE, HL_SCAN_UPDATED_AT}
                            \cup (IF had_run_id THEN {HL_SCAN_RUN_ID} ELSE {})
           /\ t[HL_SCAN_STATUS] = "failed"
           /\ t[HL_SCAN_MESSAGE] = "Scan job timed out"
           /\ t[HL_SCAN_UPDATED_AT][1] = "iso"
           /\ t[HL_SCAN_UPDATED_AT][2] >= h_reap.at
           /\ t[HL_SCAN_UPDATED_AT] # h_reap.before[HL_SCAN_UPDATED_AT]
           /\ had_run_id => t[HL_SCAN_RUN_ID] = h_reap.before[HL_SCAN_RUN_ID]

\* C5 witness: the reaper has gone past a timed-out pending version that
\* had a run id and other tags, and the version is now failed.
C5_Witness ==
    /\ ExaminedPending
    /\ Elapsed > 4800 * 60
    /\ ReaperPast
    /\ HL_SCAN_RUN_ID \in DOMAIN h_reap.before
    /\ HL_SCAN_THREAT_LEVEL \in DOMAIN h_reap.before
    /\ StatusOf(tags[1][1]) = "failed"

\* C6: a pending model version whose updated_at is at most 4800 minutes
\* old when the reaper examines it is not written by the reaper: the reaper
\* goes past it and every tag stays as it was.
C6_NotTimedOutUntouched ==
    (ExaminedPending /\ Elapsed <= 4800 * 60) =>
        /\ ~ReaperWriting
        /\ tags[1][1] = h_reap.before

\* C6 witness: the reaper has gone past a pending version whose updated_at
\* was exactly 4800 minutes old, and its tags are as they were.
C6_Witness ==
    /\ ExaminedPending
    /\ Elapsed = 4800 * 60
    /\ ReaperPast
    /\ tags[1][1] = h_reap.before

\* C7: whenever the reaper decides to act on a model version, the stored
\* scan status of that version is pending at that moment.
C7_ReaperActsOnlyOnPending ==
    h_reap.decision = "timed_out" => StatusOf(h_reap.before) = "pending"

\* C8: the reaper, run on a model version that is already failed, writes
\* and deletes nothing: the tags after the run are the tags before it.
C8_ReaperIdempotent ==
    (h_reap.j >= 1 /\ StatusOf(h_reap.before) = "failed") =>
        /\ ~ReaperWriting
        /\ tags[1][1] = h_reap.before

\* C8 witness: the second run of the reaper has gone past the version that
\* its first run had marked failed, and has left it as it was.
C8_Witness ==
    /\ cycle = 2
    /\ ReaperPast
    /\ StatusOf(h_reap.before) = "failed"
    /\ tags_get(h_reap.before, HL_SCAN_MESSAGE, "") = "Scan job timed out"
    /\ tags[1][1] = h_reap.before

\* C9: a poll cycle that has run to its end has had the reaper examine
\* every pending model version of its snapshot.
C9_ReaperRunsEveryCycle ==
    pc \in {"done", "exit"} => j > Len(mv_dict[STATUS_PENDING])

\* Initialization is behind the monitor in the current poll cycle.
PastInit == pc \notin {"idle", "init", "init_status", "init_updated", "mark"}

\* C10: when init has just run over a scope with untagged latest versions,
\* each of them has scan status unscanned and an updated_at tag, and the
\* init marker exists.
C10_InitTagsUnscanned ==
    /\ PastInit => marker
    /\ (PastInit /\ Len(runs) = 0) =>
          \A k \in 1..Len(versions) :
             LET t == tags[versions[k].name][versions[k].version]
             IN /\ StatusOf(t) = "unscanned"
                /\ HL_SCAN_UPDATED_AT \in DOMAIN t

\* C10 witness: init has just run over two untagged versions.
C10_Witness ==
    /\ PastInit
    /\ Len(runs) = 0
    /\ Len(versions) = 2
    /\ marker
    /\ StatusOf(tags[versions[2].name][versions[2].version]) = "unscanned"

\* The positions of the monitor inside init.
InitPcs == {"init", "init_status", "init_updated", "mark"}

\* C11: while the init marker exists the monitor is never inside init, and
\* no step makes a model version unscanned, which only init does: the marker
\* is looked for first and init is not entered, whatever the schema holds.
C11_InitSkippedOnceMarked ==
    /\ [](marker => pc \notin InitPcs)
    /\ [][marker =>
            /\ pc' \notin InitPcs
            /\ \A m \in Models : \A v \in Versions :
                  StatusOf(tags'[m][v]) = "unscanned" =>
                      StatusOf(tags[m][v]) = "unscanned"]_vars

\* C11 witness: the second poll cycle, started with the marker in place, has
\* found an untagged model version and has gone on to admission without
\* init having listed anything.
C11_Witness ==
    /\ marker
    /\ cycle = 2
    /\ pc = "submit"
    /\ versions = << >>
    /\ StatusOf(tags[mv_dict[STATUS_NONE][1].name]
                     [mv_dict[STATUS_NONE][1].version]) = ""

\* C12: when init ends having found a schema without any model version, it
\* leaves the init marker absent.
C12_EmptyScopeNotMarked ==
    [][(pc = "mark" /\ versions = << >> /\ Registered = {}
            /\ pc' \notin InitPcs) => ~marker']_vars

\* The registered models whose latest version has the given stored status.
WithStatus(status) ==
    {m \in Registered : StatusOf(tags[m][latest_version(m)]) = status}

\* C13: at the end of a first poll cycle that ran init over n untagged
\* model versions, with nothing pending in its snapshot, min(n, 10) versions
\* are pending and the other n - min(n, 10) are unscanned.
C13_FirstCycleOutcome ==
    (pc = "done" /\ cycle = 1 /\ versions # << >>
        /\ Len(mv_dict[STATUS_PENDING]) = 0) =>
        LET n == Len(versions)
            k == IF n < 10 THEN n ELSE 10
        IN /\ Cardinality(WithStatus("pending")) = k
           /\ Cardinality(WithStatus("unscanned")) = n - k

\* C14: a later poll cycle that ends with fewer than MAX_ACTIVE_SCAN_JOBS
\* model versions pending or admitted has left no unscanned model version
\* without a scan job: the versions that an exhausted cap left unscanned
\* are admitted once there is room.
C14_UnscannedAdmittedLater ==
    (pc \in {"done", "exit"} /\ cycle >= 2
        /\ Len(mv_dict[STATUS_PENDING]) + Len(Admitted) < 10) =>
        \A m \in WithStatus("unscanned") : RunsOf(m, latest_version(m)) # {}

\* C15: every step that changes the stored scan status of a model version
\* changes it along an edge of the lifecycle: none to unscanned, unscanned
\* to pending, pending to one of the four final statuses.
C15_StatusFollowsLifecycle ==
    [][\A m \in Models : \A v \in Versions :
          StatusOf(tags'[m][v]) # StatusOf(tags[m][v]) =>
              << StatusOf(tags[m][v]), StatusOf(tags'[m][v]) >> \in
                  {<< "", "unscanned" >>, << "unscanned", "pending" >>}
                     \cup {<< "pending", s >> :
                              s \in {"done", "failed", "canceled",
                                     "skipped"}}]_vars

\* C16: a model version whose stored status is final is not scanned again:
\* no scan job is submitted for it, and a scan job that starts on it ends at
\* once, leaving its tags as they are.
C16_FinalNeverRescanned ==
    [][/\ Len(runs') > Len(runs) =>
             StatusOf(tags[runs'[Len(runs')].name][runs'[Len(runs')].version])
                 \notin {"done", "failed", "canceled", "skipped"}
       /\ \A r \in DOMAIN runs :
             (/\ runs[r].pc = "queued"
              /\ runs'[r].pc # "queued"
              /\ StatusOf(tags[runs[r].name][runs[r].version])
                    \in {"done", "failed", "canceled", "skipped"}) =>
                 (runs'[r].pc \in EndedPcs /\ tags' = tags)]_vars

\* The run id of run r has been saved as a tag by the monitor.
RunIdWritten(r) == r < Len(runs) \/ pc # "run_id"

\* C17, as stated: a model version that has reached a final status after
\* its run id was saved still has the run id tag, with the id of one of its
\* scan jobs.
C17_RunIdRetained ==
    \A r \in DOMAIN runs :
        LET t == tags[runs[r].name][runs[r].version]
        IN (RunIdWritten(r)
              /\ StatusOf(t) \in {"done", "failed", "canceled", "skipped"}) =>
              /\ HL_SCAN_RUN_ID \in DOMAIN t
              /\ t[HL_SCAN_RUN_ID] \in RunsOf(runs[r].name, runs[r].version)

\* C17, amended: a step that finds the run id tag on a model version leaves
\* it there with its value, unless the step is the delete of that tag by the
\* clear_tags of the scan completion writer, or the monitor saving the run
\* id of a new scan job of the version; the clear_tags of the reaper and of
\* the failure handler keep it.
C17_RunIdKeptButByCompletion ==
    [][\A m \in Models : \A v \in Versions :
          HL_SCAN_RUN_ID \in DOMAIN tags[m][v] =>
             \/ /\ HL_SCAN_RUN_ID \in DOMAIN tags'[m][v]
                /\ tags'[m][v][HL_SCAN_RUN_ID] = tags[m][v][HL_SCAN_RUN_ID]
             \/ \E r \in RunsOf(m, v) :
                   /\ runs[r].pc = "r_delete"
                   /\ Head(runs[r].clr) = HL_SCAN_RUN_ID
                   /\ runs'[r] # runs[r]
                   /\ HL_SCAN_RUN_ID \notin DOMAIN tags'[m][v]
             \/ /\ pc = "run_id"
                /\ pc' # "run_id"
                /\ runs[Len(runs)].name = m
                /\ runs[Len(runs)].version = v
                /\ HL_SCAN_RUN_ID \in DOMAIN tags'[m][v]
                /\ tags'[m][v][HL_SCAN_RUN_ID] = Len(runs)]_vars

\* C17 witness: the reaper has marked a model version failed, and the
\* version still has the run id the monitor saved on it.
C17_Witness ==
    \E m \in Registered :
        LET t == tags[m][latest_version(m)]
        IN /\ StatusOf(t) = "failed"
           /\ tags_get(t, HL_SCAN_MESSAGE, "") = "Scan job timed out"
           /\ HL_SCAN_UPDATED_AT \in DOMAIN t
           /\ HL_SCAN_RUN_ID \in DOMAIN t
           /\ t[HL_SCAN_RUN_ID] \in RunsOf(m, latest_version(m))

\* C18: when clear_tags has returned, no one else having written, the
\* tags stored for the model version are the tags stored before the call,
\* restricted to the keys of the keep list, whatever tags the object passed
\* in carried.
C18_ClearLeavesKeptTags ==
    (pc = "done" /\ h_reap.decision = "cleared") =>
        tags[1][1] = [k \in DOMAIN h_reap.before \cap h_reap.keep |->
                         h_reap.before[k]]

\* C18 witness: clear_tags keeping the run id has returned, for a version
\* that had a run id, a status and a tag that is not the scanner's; only the
\* run id is left.
C18_Witness ==
    /\ pc = "done"
    /\ h_reap.decision = "cleared"
    /\ h_reap.keep = {HL_SCAN_RUN_ID}
    /\ {HL_SCAN_RUN_ID, HL_SCAN_STATUS, USER_TAG} \subseteq DOMAIN h_reap.before
    /\ DOMAIN tags[1][1] = {HL_SCAN_RUN_ID}

\* C19: when the job runner has refused the scan job of an admitted model
\* version and the error has ended the poll cycle, the stored scan status of
\* that version is pending, for the reaper to find.
C19_RefusedLeftPending ==
    pc = "error" =>
        StatusOf(tags[mv_dict[STATUS_NONE][i + 1].name]
                     [mv_dict[STATUS_NONE][i + 1].version]) = "pending"

\* C20: a pending model version whose updated_at tag is missing, or is no
\* ISO 8601 time stamp, is not written by the reaper, and the reaper goes
\* past it without ending the poll cycle in an error.
C20_BadUpdatedAtSkipped ==
    (/\ h_reap.j >= 1
     /\ StatusOf(h_reap.before) = "pending"
     /\ \/ HL_SCAN_UPDATED_AT \notin DOMAIN h_reap.before
        \/ h_reap.before[HL_SCAN_UPDATED_AT][1] # "iso") =>
        /\ tags[1][1] = h_reap.before
        /\ ReaperPast

\* C21: a step the monitor takes when the model version it is about to
\* read or write has been deleted from the registry does not end the poll
\* cycle in an error.
C21_VanishedVersionSkipped ==
    [][(pc \in RegistryPcs /\ ~Exists(Target)) => pc' # "error"]_vars

C23_FailedJobLeavesFailedTags ==
    [][\A r \in DOMAIN runs :
          /\ (runs[r].pc = "f_updated" /\ runs'[r].pc = "raised") =>
                LET before == tags[runs[r].name][runs[r].version]
                    after == tags'[runs[r].name][runs[r].version]
                IN /\ DOMAIN after \ {HL_SCAN_RUN_ID} =
                        {HL_SCAN_STATUS, HL_SCAN_MESSAGE, HL_SCAN_UPDATED_AT}
                   /\ after[HL_SCAN_STATUS] = STATUS_FAILED
                   /\ after[HL_SCAN_MESSAGE] \in
                        {MSG_NO_SOURCE, MSG_UNEXPECTED, MSG_SCANNED_ONCE}
                   /\ after[HL_SCAN_UPDATED_AT] = isoformat(now)
                   /\ HL_SCAN_RUN_ID \in DOMAIN after <=>
                        HL_SCAN_RUN_ID \in DOMAIN before
                   /\ HL_SCAN_RUN_ID \in DOMAIN before =>
                        after[HL_SCAN_RUN_ID] = before[HL_SCAN_RUN_ID]
          /\ runs[r].message # "" => runs'[r].pc # "finished"]_vars

\* C24: when a scan job ends, normally or by raising, the scan status of
\* its model version is done, failed, canceled or skipped.
C24_JobLeavesTerminalStatus ==
    [][\A r \in DOMAIN runs :
          (~Ended(r) /\ runs'[r].pc \in {"finished", "raised"}) =>
             tags_get(tags'[runs[r].name][runs[r].version], HL_SCAN_STATUS,
                      STATUS_NONE) \in
                {STATUS_DONE, STATUS_FAILED, STATUS_CANCELED,
                 STATUS_SKIPPED}]_vars

\* C25: the artifacts of a model version are sent to the scan engine only
\* if the registry status of the model version is READY.
C25_NotReadyNeverScanned ==
    [][\A r \in DOMAIN runs :
          (runs[r].pc = "scan" /\ runs'[r].pc \in {"r_clear", "f_clear"}) =>
             registry_status[runs[r].name][runs[r].version] =
                MODEL_VERSION_STATUS_READY]_vars

\* C26: get_model_version returns the model version of the registry with
\* the given name and version number when the registry has it and answers,
\* raises ModelVersionNotFound when the registry answers that it does not
\* exist, and raises ModelVersionError itself, not ModelVersionNotFound,
\* when the call of the registry fails in any other way.
C26_GetModelVersionOutcome ==
    ret # NoRet =>
       IF ret.fault = ""
       THEN IF ret.version \in registry[ret.name]
            THEN /\ ret.kind = "returns"
                 /\ ret.value.name = ret.name
                 /\ ret.value.version = ret.version
                 /\ ret.value.tags = tags[ret.name][ret.version]
            ELSE ret.kind = "raises" /\ ret.class = "ModelVersionNotFound"
       ELSE ret.kind = "raises" /\ ret.class = "ModelVersionError"

\* C27: a model version that has been submitted for scanning does not stay
\* without a final status for ever.  Stated for a state between two poll
\* cycles: it is never so that a submitted model version has no final
\* status while every scan job has ended, the init marker exists and no
\* latest version is untagged; from such a state on every poll cycle finds no
\* new model version and ends at once, and no job is left to write a tag.
C27_SubmittedReachesFinalStatus ==
    ~ /\ pc = "idle"
      /\ marker
      /\ \A r \in DOMAIN runs : Ended(r)
      /\ \A m \in Registered :
            StatusOf(tags[m][latest_version(m)]) # STATUS_NONE
      /\ \E r \in DOMAIN runs :
            StatusOf(tags[runs[r].name][runs[r].version]) \notin
               {STATUS_DONE, STATUS_FAILED, STATUS_CANCELED, STATUS_SKIPPED}

\* C28: no step changes or removes the stored scan status of a model
\* version once it is done, failed, canceled or skipped; in particular no
\* step of a scan job does so after the reaper has marked the version failed.
C28_FinalStatusNeverChanges ==
    [][\A m \in Models : \A v \in Versions :
          StatusOf(tags[m][v]) \in
             {STATUS_DONE, STATUS_FAILED, STATUS_CANCELED, STATUS_SKIPPED} =>
                StatusOf(tags'[m][v]) = StatusOf(tags[m][v])]_vars

\* C29: a model version has a threat level, scanner version or scan URL tag
\* only while its scan status is done.
C29_ResultTagsOnlyWithDone ==
    \A m \in Models : \A v \in Versions :
        DOMAIN tags[m][v] \cap {HL_SCAN_THREAT_LEVEL, HL_SCAN_SCANNER_VERSION,
                                HL_SCAN_URL} # {} =>
           StatusOf(tags[m][v]) = STATUS_DONE

\* C30: a model version has a message tag only while its scan status is
\* failed.
C30_MessageOnlyWithFailed ==
    \A m \in Models : \A v \in Versions :
        HL_SCAN_MESSAGE \in DOMAIN tags[m][v] =>
           StatusOf(tags[m][v]) = STATUS_FAILED

\* C31: a model version whose stored scan status is pending has an
\* updated_at tag, and the step that makes a model version pending leaves
\* the time of that step as its updated_at.
C31_PendingHasUpdatedAt ==
    /\ [](\A m \in Models : \A v \in Versions :
            StatusOf(tags[m][v]) = STATUS_PENDING =>
               HL_SCAN_UPDATED_AT \in DOMAIN tags[m][v])
    /\ [][\A m \in Models : \A v \in Versions :
             (StatusOf(tags[m][v]) # STATUS_PENDING
                /\ StatusOf(tags'[m][v]) = STATUS_PENDING) =>
                tags_get(tags'[m][v], HL_SCAN_UPDATED_AT, NOT_ISO) =
                   isoformat(now)]_vars

\* C32: the snapshot of a poll cycle lists as pending every model version of
\* the registry whose stored scan status is pending, whether or not a newer
\* version of its model exists, so that it is counted as an active job and
\* handed to the reaper.
C32_SupersededPendingStillListed ==
    [][(pc = "idle" /\ pc' # "idle") =>
          \A m \in Models : \A v \in registry[m] :
             StatusOf(tags[m][v]) = STATUS_PENDING =>
                \E k \in DOMAIN mv_dict'[STATUS_PENDING] :
                   /\ mv_dict'[STATUS_PENDING][k].name = m
                   /\ mv_dict'[STATUS_PENDING][k].version = v]_vars

\* C33: a step of init changes the tags of a model version only if the
\* version has no scan status tag, or if it is the version init has just
\* tagged unscanned, which had no scan status tag before; the tags of every
\* other model version are left as they are.
C33_InitWritesOnlyUntagged ==
    [][\A m \in Models : \A v \in Versions :
          /\ (pc = "init_status" /\ pc' = "init_updated"
                 /\ tags'[m][v] # tags[m][v]) =>
                StatusOf(tags[m][v]) = STATUS_NONE
          /\ (pc = "init_updated" /\ i' = i + 1
                 /\ tags'[m][v] # tags[m][v]) =>
                /\ m = versions[i].name
                /\ v = versions[i].version
                /\ StatusOf(versions[i].tags) = STATUS_NONE
                /\ tags[m][v] = set_tag(versions[i].tags, HL_SCAN_STATUS,
                                        STATUS_UNSCANNED)]_vars

\* C33 witness: init, run again after an earlier run of it had stopped
\* half-way, has tagged a model version while another one is pending and a
\* third is already unscanned.
C33_Witness ==
    /\ pc = "mark"
    /\ cycle = 2
    /\ Len(versions) = 1
    /\ StatusOf(tags[versions[1].name][versions[1].version]) = STATUS_UNSCANNED
    /\ \E m \in Models : \E v \in registry[m] :
          StatusOf(tags[m][v]) = STATUS_PENDING
    /\ \E m \in Models : \E v \in registry[m] :
          /\ StatusOf(tags[m][v]) = STATUS_UNSCANNED
          /\ << m, v >> # << versions[1].name, versions[1].version >>

====
